---- MODULE Spec2Model ----
(***************************************************************************)
(* The lot-matching engine of btc_tax (src/cost_basis_matching.py) as a    *)
(* state machine.  main (src/btc_tax.py) calls match_sales_to_lots_fifo,   *)
(* match_sales_to_lots_lifo and match_sales_to_lots_hifo one after the     *)
(* other on the same lot list and the same sale list; each call is         *)
(* modelled loop iteration by loop iteration, its local variables indexed  *)
(* by the policy of the call.                                              *)
(*                                                                         *)
(* Quantities (BTC) and money (USD) are integers in the smallest unit; the *)
(* inputs are drawn so that the two divisions of the code                  *)
(* (cost_basis_usd / btc_amount and amount_to_use / btc_amount) are exact. *)
(* A datetime is an integer number of ticks, TicksPerDay ticks to the day. *)
(***************************************************************************)
EXTENDS Integers, Sequences, FiniteSets, TLC

\* ------------------------------------------------------------------ bounds
MaxLots == 2
MaxSales == 2
MaxBtc == 2
MaxBuys == 1
MaxMining == 1
MaxBalance == 5
MaxHeld == 3
TicksPerDay == 2

\* ------------------------------------------------------- program constants
LongTermDays == 365

\* 0.00000001 BTC, the amounts being counted in units of 0.00000001 BTC
Tolerance == 1

Methods == {"FIFO", "LIFO", "HIFO"}

\* The order in which main runs the three matching functions.
MainOrder == <<"FIFO", "LIFO", "HIFO">>

\* ------------------------------------------------------------------- time
\* datetime(day, time of day)
Stamp(day, tod) == day * TicksPerDay + tod

\* datetime.date(): the calendar day of a timestamp
CalendarDay(t) == t \div TicksPerDay

\* timedelta.days of (later - earlier): whole days, rounded towards minus
\* infinity
TimedeltaDays(later, earlier) == (later - earlier) \div TicksPerDay

\* ------------------------------------------------------------ data model
\* AcquisitionLot with its __post_init__
AcquisitionLot(date, btc_amount, cost_basis_usd, source) ==
  [date |-> date,
   btc_amount |-> btc_amount,
   cost_basis_usd |-> cost_basis_usd,
   source |-> source,
   price_per_btc |-> IF btc_amount > 0 THEN cost_basis_usd \div btc_amount
                                       ELSE 0]

\* SaleTransaction with its __post_init__
SaleTransaction(date, btc_amount, sale_price_per_btc, fee_usd, source) ==
  [date |-> date,
   btc_amount |-> btc_amount,
   sale_price_per_btc |-> sale_price_per_btc,
   sale_proceeds_usd |-> sale_price_per_btc * btc_amount,
   fee_usd |-> fee_usd,
   net_proceeds_usd |-> sale_price_per_btc * btc_amount - fee_usd,
   source |-> source]

\* ----------------------------------------------------------------- inputs
\* The acquisition timestamps tried: midnight and the last tick of day 0,
\* and midnight of day 1.  The sale timestamps tried: midnight of day 0 and
\* midnight of the day LongTermDays + 1.  Seen from the late sale the three
\* lots are exactly 366 days, 365 days and a fraction, and exactly 365 days
\* old; seen from the early sale the last two are not yet acquired.
LotDates == {Stamp(0, 0), Stamp(0, TicksPerDay - 1), Stamp(1, 0)}
SaleDates == {Stamp(0, 0), Stamp(LongTermDays + 1, 0)}
UnitCosts == {1, 2}
LotSources == {"BUY", "MINING"}

\* btc_price = price_lookup.get(date_key, 0.0) with date_key = date.date():
\* a sample price table, the price of a sale is the price of its day; the
\* table has no price for the days before day 0, where the lookup gives 0.
BtcPrice(date_key) ==
  IF date_key < 0 THEN 0 ELSE IF date_key < 1 THEN 1 ELSE 3

\* The CSV files main reads, and the files with no data row.
Files == {"buys", "mining", "river", "compass"}
NoRows == [f \in Files |-> <<>>]

\* The lots a caller can supply: the cost basis is a whole unit cost times
\* the amount (the price times the amount, fee included).
LotChoices ==
  {AcquisitionLot(d, a, c * a, s) :
     d \in LotDates, a \in 1..MaxBtc, c \in UnitCosts, s \in LotSources}

\* The sales parse_river_sells builds.
SaleChoices ==
  {SaleTransaction(d, a, BtcPrice(CalendarDay(d)), 0, "RIVER_SELL") :
     d \in SaleDates, a \in 1..MaxBtc}

SeqsUpTo(S, n) == UNION {[1..k -> S] : k \in 0..n}

\* legacy_date_str defaults to '2009-01-03', before every other date
DefaultLegacyDate == Stamp(-1, 0)

\* ------------------------------------------------------------- functions
Min(a, b) == IF a <= b THEN a ELSE b

\* Mutant: long-term from 365 days on.
calculate_holding_period_AtLeast(acquisition_date, sale_date) ==
  LET holding_period == TimedeltaDays(sale_date, acquisition_date)
  IN  [holding_period_days |-> holding_period,
       is_long_term |-> holding_period >= LongTermDays]

\* calculate_holding_period
calculate_holding_period(acquisition_date, sale_date) ==
  LET holding_period == TimedeltaDays(sale_date, acquisition_date)
  IN  [holding_period_days |-> holding_period,
       is_long_term |-> holding_period > LongTermDays]

\* Mutant: FIFO keeps the caller's order.
SortKey_FifoUnsorted(policy, lot) ==
  CASE policy = "FIFO" -> 0
    [] policy = "LIFO" -> 0 - lot.date
    [] policy = "HIFO" -> 0 - lot.price_per_btc

\* Mutant: LIFO without reverse=True.
SortKey_LifoAscending(policy, lot) ==
  CASE policy = "FIFO" -> lot.date
    [] policy = "LIFO" -> lot.date
    [] policy = "HIFO" -> 0 - lot.price_per_btc

\* Mutant: HIFO without reverse=True.
SortKey_HifoAscending(policy, lot) ==
  CASE policy = "FIFO" -> lot.date
    [] policy = "LIFO" -> 0 - lot.date
    [] policy = "HIFO" -> lot.price_per_btc

\* The sort key of each policy; reverse=True of sorted() is a stable
\* descending sort, which is the stable ascending sort by the negated key.
SortKey(policy, lot) ==
  CASE policy = "FIFO" -> lot.date
    [] policy = "LIFO" -> 0 - lot.date
    [] policy = "HIFO" -> 0 - lot.price_per_btc

\* Mutant: x goes in front of the elements of equal key (ties reversed).
RECURSIVE InsertSorted_BeforeEquals(_, _, _)
InsertSorted_BeforeEquals(policy, x, s) ==
  IF s = <<>> THEN <<x>>
  ELSE IF SortKey(policy, x) <= SortKey(policy, Head(s))
       THEN <<x>> \o s
       ELSE <<Head(s)>> \o InsertSorted_BeforeEquals(policy, x, Tail(s))

\* Insert x behind every element whose key is not larger (stable).
RECURSIVE InsertSorted(_, _, _)
InsertSorted(policy, x, s) ==
  IF s = <<>> THEN <<x>>
  ELSE IF SortKey(policy, x) < SortKey(policy, Head(s))
       THEN <<x>> \o s
       ELSE <<Head(s)>> \o InsertSorted(policy, x, Tail(s))

\* sorted(acquisition_lots, key=..., reverse=...)
RECURSIVE SortedPrefix(_, _, _)
SortedPrefix(policy, lots, n) ==
  IF n = 0 THEN <<>>
  ELSE InsertSorted(policy, lots[n], SortedPrefix(policy, lots, n - 1))

sorted(policy, lots) == SortedPrefix(policy, lots, Len(lots))

\* Mutant: an empty lot list is replaced by one zero-cost lot.
InitialRemaining_DefaultLot(sorted_lots) ==
  IF sorted_lots = <<>>
    THEN <<[lot |-> AcquisitionLot(Stamp(0, 0), MaxBtc, 0, "LEGACY"),
            remaining_amount |-> MaxBtc]>>
    ELSE [k \in 1..Len(sorted_lots) |->
            [lot |-> sorted_lots[k],
             remaining_amount |-> sorted_lots[k].btc_amount]]

\* remaining_lots = [(lot, lot.btc_amount) for lot in sorted_lots]
InitialRemaining(sorted_lots) ==
  [k \in 1..Len(sorted_lots) |->
     [lot |-> sorted_lots[k], remaining_amount |-> sorted_lots[k].btc_amount]]

\* Mutant: only a counter of exactly zero counts as exhausted.
LotExhausted_OnlyZero(remaining_amount) == remaining_amount = 0

\* Mutant: a lot is never taken to be exhausted.
LotExhausted_Never(remaining_amount) == FALSE

\* if remaining_amount <= 0: continue
LotExhausted(remaining_amount) == remaining_amount <= 0

\* Mutant: the dates are compared without their time of day.
AcquiredAfterSale_ByCalendarDay(lot, sale) ==
  CalendarDay(lot.date) > CalendarDay(sale.date)

\* Mutant: the date check is missing.
AcquiredAfterSale_Never(lot, sale) == FALSE

\* if lot.date > sale.date: continue
AcquiredAfterSale(lot, sale) == lot.date > sale.date

\* Mutant: the whole rest of the lot is taken.
AmountToUse_RestOfLot(remaining_sale, remaining_amount) == remaining_amount

\* Mutant: the whole rest of the sale is taken.
AmountToUse_RestOfSale(remaining_sale, remaining_amount) == remaining_sale

\* amount_to_use = min(remaining_sale_amount, remaining_amount)
AmountToUse(remaining_sale, remaining_amount) ==
  Min(remaining_sale, remaining_amount)

\* Mutant: the whole cost basis of the lot is booked on every match.
CostBasisUsed_WholeLot(amount_to_use, lot) == lot.cost_basis_usd

\* cost_basis_used = (amount_to_use / lot.btc_amount) * lot.cost_basis_usd
CostBasisUsed(amount_to_use, lot) ==
  (amount_to_use * lot.cost_basis_usd) \div lot.btc_amount

\* Mutant: the gain is the whole proceeds, the cost is not taken off.
GainLoss_ProceedsOnly(amount_to_use, lot, sale) ==
  sale.sale_price_per_btc * amount_to_use

\* gain_loss = (sale.sale_price_per_btc - lot.price_per_btc) * amount_to_use
GainLoss(amount_to_use, lot, sale) ==
  (sale.sale_price_per_btc - lot.price_per_btc) * amount_to_use

\* The MatchedLot record built for one allocation.
MatchedLot(sale, lot, amount_to_use) ==
  LET hp == calculate_holding_period(lot.date, sale.date)
  IN  [sale_date |-> sale.date,
       sale_amount |-> sale.btc_amount,
       sale_price_per_btc |-> sale.sale_price_per_btc,
       lot_date |-> lot.date,
       lot_amount_used |-> amount_to_use,
       lot_cost_basis_per_btc |-> lot.price_per_btc,
       cost_basis_used |-> CostBasisUsed(amount_to_use, lot),
       gain_loss |-> GainLoss(amount_to_use, lot, sale),
       holding_period_days |-> hp.holding_period_days,
       is_long_term |-> hp.is_long_term,
       sale_source |-> sale.source,
       lot_source |-> lot.source]

\* sum(...) over a list of numbers, accumulated from the left
RECURSIVE sum(_)
sum(s) == IF s = <<>> THEN 0 ELSE Head(s) + sum(Tail(s))

IsLongTerm(m) == m.is_long_term
IsShortTerm(m) == ~m.is_long_term

\* [m.gain_loss for m in ms]
GainLosses(ms) == [k \in 1..Len(ms) |-> ms[k].gain_loss]

\* total_realized_gain = sum(m.gain_loss for m in matched_lots)
TotalRealizedGain(ms) == sum(GainLosses(ms))

\* short_term_gain = sum(m.gain_loss for m in matched_lots if not m.is_long_term)
ShortTermGain(ms) == sum(GainLosses(SelectSeq(ms, IsShortTerm)))

\* Mutant: the filter on is_long_term is missing.
LongTermGain_Unfiltered(ms) == sum(GainLosses(ms))

\* long_term_gain = sum(m.gain_loss for m in matched_lots if m.is_long_term)
LongTermGain(ms) == sum(GainLosses(SelectSeq(ms, IsLongTerm)))

\* total_cost_basis = sum(m.cost_basis_used for m in matched_lots)
TotalCostBasis(ms) == sum([k \in 1..Len(ms) |-> ms[k].cost_basis_used])

\* total_proceeds = sum(m.sale_price_per_btc * m.lot_amount_used for m in matched_lots)
TotalProceeds(ms) ==
  sum([k \in 1..Len(ms) |-> ms[k].sale_price_per_btc * ms[k].lot_amount_used])

\* The MatchingResults value a matching function returns.
MatchingResults(policy, ms) ==
  [method |-> policy,
   matched_lots |-> ms,
   total_realized_gain |-> TotalRealizedGain(ms),
   short_term_gain |-> ShortTermGain(ms),
   long_term_gain |-> LongTermGain(ms),
   total_cost_basis |-> TotalCostBasis(ms),
   total_proceeds |-> TotalProceeds(ms)]

NoResults == [method |-> "NONE"]

\* ------------------------------------------------------------------ state
VARIABLES
  acquisition_lots,       \* the caller's lot list
  sales,                  \* the caller's sale list
  pc,                     \* pc[p]: position of the call of policy p
  remaining_lots,         \* remaining_lots[p]: sorted (lot, remaining) pairs
  matched_lots,           \* matched_lots[p]
  sale_idx,               \* sale_idx[p]: position of `for sale in sales`
  i,                      \* i[p]: position of the enumerate over the lots
  remaining_sale_amount,  \* remaining_sale_amount[p]
  results,                \* results[p]: the value returned by the call
  match_origin,           \* history: match_origin[p][k] is the position in
                          \* sales (.sale) and in remaining_lots[p] (.lot)
                          \* of the loop iteration that appended
                          \* matched_lots[p][k]
  main_pc,                \* position of main: "parse_buys", "parse_mining",
                          \* "build", "parse_sales", "match", "report"
  csv_rows,               \* csv_rows[f]: the data rows of CSV file f
  buy_lots,               \* the lots parse_buy_transactions returned
  mining_lots,            \* the lots parse_mining_transactions returned
  current_balance_btc,    \* config['current_balance_btc']
  legacy_acquisition_date,\* config['legacy']['acquisition_date']
  preferred_method,       \* main's preferred_method
  selected_method,        \* main's selected_method
  selected_results,       \* main's selected_results
  first_results,          \* first_results[p]: what an earlier call of
                          \* policy p on the same lists returned
  main_remaining_lots     \* main's remaining_lots: what
                          \* calculate_remaining_lots returned

\* What build_acquisition_lots reads.
build_vars == <<csv_rows, buy_lots, mining_lots, current_balance_btc,
                legacy_acquisition_date>>

\* What the choice of the method in main writes.
select_vars == <<preferred_method, selected_method, selected_results>>

\* The state outside the matching functions.
main_vars == <<main_pc, build_vars, select_vars, first_results,
               main_remaining_lots>>

vars == <<acquisition_lots, sales, pc, remaining_lots, matched_lots,
          sale_idx, i, remaining_sale_amount, results, match_origin,
          main_vars>>

\* No matching function has been called yet, no method chosen.
NotCalled ==
  /\ pc = [p \in Methods |-> "call"]
  /\ remaining_lots = [p \in Methods |-> <<>>]
  /\ matched_lots = [p \in Methods |-> <<>>]
  /\ sale_idx = [p \in Methods |-> 0]
  /\ i = [p \in Methods |-> 0]
  /\ remaining_sale_amount = [p \in Methods |-> 0]
  /\ results = [p \in Methods |-> NoResults]
  /\ match_origin = [p \in Methods |-> <<>>]
  /\ first_results = [p \in Methods |-> NoResults]
  /\ preferred_method = "NONE"
  /\ selected_method = "NONE"
  /\ selected_results = NoResults
  /\ main_remaining_lots = <<>>

\* build_acquisition_lots is not part of the run: the lists are handed to
\* the matching functions as they are.
NotBuilt ==
  /\ csv_rows = NoRows
  /\ buy_lots = <<>>
  /\ mining_lots = <<>>
  /\ current_balance_btc = 0
  /\ legacy_acquisition_date = DefaultLegacyDate

Init ==
  /\ acquisition_lots \in SeqsUpTo(LotChoices, MaxLots)
  /\ sales \in SeqsUpTo(SaleChoices, MaxSales)
  /\ main_pc = "match"
  /\ NotBuilt
  /\ NotCalled

\* Mutant: the sales are walked from the last to the first.
SaleAt_Reversed(k) == sales[Len(sales) + 1 - k]

\* `for sale in sales`: the sale of the k-th iteration
SaleAt(k) == sales[k]

\* main calls the three functions in MainOrder, each after the previous one
\* has returned.
MayCall(p) ==
  \A k \in 1..Len(MainOrder) :
    MainOrder[k] = p => \A j \in 1..(k - 1) : pc[MainOrder[j]] = "returned"

\* Mutant: the caller's list is sorted in place (list.sort()).
CallerLots_SortedInPlace(policy, lots) == sorted(policy, lots)

\* sorted(acquisition_lots, ...) builds a new list: the caller's list is
\* what it was.
CallerLots(policy, lots) == lots

\* Mutant: the counters of an earlier call of the same policy are kept.
SeededCounters_KeptAcrossCalls(p) ==
  IF remaining_lots[p] # <<>>
    THEN remaining_lots[p]
    ELSE InitialRemaining(sorted(p, acquisition_lots))

\* Mutant: the counters of a call that has already begun are shared.
SeededCounters_Shared(p) ==
  IF \E q \in Methods : remaining_lots[q] # <<>>
    THEN remaining_lots[CHOOSE q \in Methods : remaining_lots[q] # <<>>]
    ELSE InitialRemaining(sorted(p, acquisition_lots))

\* sorted_lots and remaining_lots of a call: its own list, every counter at
\* the lot's full amount.
SeededCounters(p) == InitialRemaining(sorted(p, acquisition_lots))

\* Entry of match_sales_to_lots_<p>: sort the lots, seed the counters,
\* start with no match and at the head of the sales.
Enter(p) ==
  /\ pc[p] = "call"
  /\ acquisition_lots' = CallerLots(p, acquisition_lots)
  /\ remaining_lots' = [remaining_lots EXCEPT ![p] = SeededCounters(p)]
  /\ matched_lots' = [matched_lots EXCEPT ![p] = <<>>]
  /\ match_origin' = [match_origin EXCEPT ![p] = <<>>]
  /\ sale_idx' = [sale_idx EXCEPT ![p] = 0]
  /\ pc' = [pc EXCEPT ![p] = "for_sale"]
  /\ UNCHANGED <<sales, i, remaining_sale_amount, results>>
  /\ UNCHANGED main_vars

\* main's call of match_sales_to_lots_<p>
Call(p) ==
  /\ main_pc = "match"
  /\ MayCall(p)
  /\ Enter(p)

\* Mutant: what the previous sale left unfilled is added on.
StartingAmount_PlusCarried(carried, sale) == carried + sale.btc_amount

\* remaining_sale_amount = sale.btc_amount
StartingAmount(carried, sale) == sale.btc_amount

\* `for sale in sales`: take the next sale; the inner loop starts at the
\* first lot, or is over at once when there is no lot.
NextSale(p) ==
  /\ pc[p] = "for_sale"
  /\ sale_idx[p] < Len(sales)
  /\ sale_idx' = [sale_idx EXCEPT ![p] = sale_idx[p] + 1]
  /\ remaining_sale_amount' =
       [remaining_sale_amount EXCEPT
          ![p] = StartingAmount(@, SaleAt(sale_idx[p] + 1))]
  /\ IF Len(remaining_lots[p]) = 0
       THEN UNCHANGED <<pc, i>>
       ELSE /\ pc' = [pc EXCEPT ![p] = "for_lot"]
            /\ i' = [i EXCEPT ![p] = 1]
  /\ UNCHANGED <<acquisition_lots, sales, remaining_lots, matched_lots,
                 results, match_origin>>
  /\ UNCHANGED main_vars

\* The end of one iteration of the enumerate over remaining_lots: on to the
\* next lot, or out of the inner loop after the last one.
Continue(p) ==
  IF i[p] < Len(remaining_lots[p])
    THEN /\ i' = [i EXCEPT ![p] = i[p] + 1]
         /\ UNCHANGED pc
    ELSE /\ pc' = [pc EXCEPT ![p] = "for_sale"]
         /\ UNCHANGED i

\* if remaining_sale_amount <= 0: break
Break(p) ==
  /\ pc[p] = "for_lot"
  /\ remaining_sale_amount[p] <= 0
  /\ pc' = [pc EXCEPT ![p] = "for_sale"]
  /\ UNCHANGED <<acquisition_lots, sales, remaining_lots, matched_lots,
                 sale_idx, i, remaining_sale_amount, results, match_origin>>
  /\ UNCHANGED main_vars

\* if remaining_amount <= 0: continue
SkipExhausted(p) ==
  /\ pc[p] = "for_lot"
  /\ ~(remaining_sale_amount[p] <= 0)
  /\ LotExhausted(remaining_lots[p][i[p]].remaining_amount)
  /\ Continue(p)
  /\ UNCHANGED <<acquisition_lots, sales, remaining_lots, matched_lots,
                 sale_idx, remaining_sale_amount, results, match_origin>>
  /\ UNCHANGED main_vars

\* if lot.date > sale.date: continue
SkipFuture(p) ==
  /\ pc[p] = "for_lot"
  /\ ~(remaining_sale_amount[p] <= 0)
  /\ ~LotExhausted(remaining_lots[p][i[p]].remaining_amount)
  /\ AcquiredAfterSale(remaining_lots[p][i[p]].lot, SaleAt(sale_idx[p]))
  /\ Continue(p)
  /\ UNCHANGED <<acquisition_lots, sales, remaining_lots, matched_lots,
                 sale_idx, remaining_sale_amount, results, match_origin>>
  /\ UNCHANGED main_vars

\* The rest of the loop body: allocate from the lot, append the MatchedLot,
\* update both remaining amounts.
Allocate(p) ==
  /\ pc[p] = "for_lot"
  /\ ~(remaining_sale_amount[p] <= 0)
  /\ ~LotExhausted(remaining_lots[p][i[p]].remaining_amount)
  /\ ~AcquiredAfterSale(remaining_lots[p][i[p]].lot, SaleAt(sale_idx[p]))
  /\ LET lot == remaining_lots[p][i[p]].lot
         remaining_amount == remaining_lots[p][i[p]].remaining_amount
         sale == SaleAt(sale_idx[p])
         amount_to_use == AmountToUse(remaining_sale_amount[p], remaining_amount)
     IN  /\ matched_lots' =
               [matched_lots EXCEPT
                  ![p] = Append(@, MatchedLot(sale, lot, amount_to_use))]
         /\ match_origin' =
               [match_origin EXCEPT
                  ![p] = Append(@, [sale |-> sale_idx[p], lot |-> i[p]])]
         /\ remaining_sale_amount' =
               [remaining_sale_amount EXCEPT ![p] = @ - amount_to_use]
         /\ remaining_lots' =
               [remaining_lots EXCEPT
                  ![p][i[p]].remaining_amount = remaining_amount - amount_to_use]
  /\ Continue(p)
  /\ UNCHANGED <<acquisition_lots, sales, sale_idx, results>>
  /\ UNCHANGED main_vars

\* After the last sale: compute the totals and return the MatchingResults.
Return(p) ==
  /\ pc[p] = "for_sale"
  /\ sale_idx[p] = Len(sales)
  /\ results' = [results EXCEPT ![p] = MatchingResults(p, matched_lots[p])]
  /\ pc' = [pc EXCEPT ![p] = "returned"]
  /\ UNCHANGED <<acquisition_lots, sales, remaining_lots, matched_lots,
                 sale_idx, i, remaining_sale_amount, match_origin>>
  /\ UNCHANGED main_vars

\* The rows of the DataFrame compare_methods builds, in its order.
compare_methods(fifo_results, lifo_results, hifo_results) ==
  <<fifo_results, lifo_results, hifo_results>>

\* Mutant: the last row with the smallest value.
idxmin_Last(column) ==
  CHOOSE k \in 1..Len(column) :
    /\ \A j \in 1..Len(column) : column[k] <= column[j]
    /\ \A j \in (k + 1)..Len(column) : column[k] < column[j]

\* Mutant: the first row with the largest value.
idxmin_Max(column) ==
  CHOOSE k \in 1..Len(column) :
    /\ \A j \in 1..Len(column) : column[k] >= column[j]
    /\ \A j \in 1..(k - 1) : column[k] > column[j]

\* Series.idxmin(): the label of the first row with the smallest value
idxmin(column) ==
  CHOOSE k \in 1..Len(column) :
    /\ \A j \in 1..Len(column) : column[k] <= column[j]
    /\ \A j \in 1..(k - 1) : column[k] < column[j]

\* comparison_df.loc[comparison_df['Total Realized Gain (USD)'].idxmin(),
\*                   'Method']
OptimalMethod(comparison_df) ==
  comparison_df[idxmin([k \in 1..Len(comparison_df) |->
                          comparison_df[k].total_realized_gain])].method

\* The values of cost_basis_method tried in config.yaml: the four valid
\* ones, a lower-case one and one that names no method.
ConfigMethods == {"OPTIMAL", "FIFO", "LIFO", "HIFO", "hifo", "AVERAGE"}

\* str.upper() on ConfigMethods
upper(str) == IF str = "hifo" THEN "HIFO" ELSE str

\* main after the three calls: compare the methods and choose the one the
\* reports are made from.
Select ==
  /\ main_pc = "match"
  /\ \A p \in Methods : pc[p] = "returned"
  /\ \E cost_basis_method \in ConfigMethods :
       LET comparison_df ==
             compare_methods(results["FIFO"], results["LIFO"], results["HIFO"])
           preferred == upper(cost_basis_method)
           method == IF preferred = "OPTIMAL" \/ preferred \notin Methods
                       THEN OptimalMethod(comparison_df)
                       ELSE preferred
       IN  /\ preferred_method' =
                IF preferred \notin Methods THEN "OPTIMAL" ELSE preferred
           /\ selected_method' = method
           /\ selected_results' =
                IF method = "HIFO" THEN results["HIFO"]
                ELSE IF method = "LIFO" THEN results["LIFO"]
                ELSE results["FIFO"]
  /\ main_pc' = "report"
  /\ UNCHANGED <<acquisition_lots, sales, pc, remaining_lots, matched_lots,
                 sale_idx, i, remaining_sale_amount, results, match_origin,
                 build_vars, first_results, main_remaining_lots>>

\* Mutant: the lots are told apart by their date alone.
LotKey_DateOnly(date, source) == <<date>>

\* lot_key = (date, source)
LotKey(date, source) == <<date, source>>

\* Mutant: `=` for `+=`, the last match of a key overwrites the others.
lot_usage_LastMatchOnly(matched, lot_key) ==
  LET HasKey(m) == LotKey(m.lot_date, m.lot_source) = lot_key
      of_key == SelectSeq(matched, HasKey)
  IN  IF of_key = <<>> THEN 0 ELSE of_key[Len(of_key)].lot_amount_used

\* lot_usage.get(lot_key, 0.0) after the loop over the matches
lot_usage(matched, lot_key) ==
  LET HasKey(m) == LotKey(m.lot_date, m.lot_source) = lot_key
      of_key == SelectSeq(matched, HasKey)
  IN  sum([k \in 1..Len(of_key) |-> of_key[k].lot_amount_used])

\* Mutant: every positive remainder is listed.
AboveTolerance_AnyPositive(remaining_amount) == remaining_amount > 0

\* if remaining_amount > 0.00000001
AboveTolerance(remaining_amount) == remaining_amount > Tolerance

\* The loop over acquisition_lots from position k on: the (lot, remaining)
\* pairs it appends.
RECURSIVE RemainingFrom(_, _, _)
RemainingFrom(lots, matched, k) ==
  IF k > Len(lots) THEN <<>>
  ELSE LET lot == lots[k]
           used == lot_usage(matched, LotKey(lot.date, lot.source))
           remaining_amount == lot.btc_amount - used
       IN  (IF AboveTolerance(remaining_amount)
              THEN <<[lot |-> lot, remaining_amount |-> remaining_amount]>>
              ELSE <<>>)
             \o RemainingFrom(lots, matched, k + 1)

\* calculate_remaining_lots
calculate_remaining_lots(lots, matched) == RemainingFrom(lots, matched, 1)

\* main after the reports: the remaining lots under the selected method.
Reconcile ==
  /\ main_pc = "report"
  /\ main_remaining_lots' =
       calculate_remaining_lots(acquisition_lots, selected_results.matched_lots)
  /\ main_pc' = "done"
  /\ UNCHANGED <<acquisition_lots, sales, pc, remaining_lots, matched_lots,
                 sale_idx, i, remaining_sale_amount, results, match_origin,
                 build_vars, select_vars, first_results>>

Next ==
  \/ \E p \in Methods :
       \/ Call(p)
       \/ NextSale(p)
       \/ Break(p)
       \/ SkipExhausted(p)
       \/ SkipFuture(p)
       \/ Allocate(p)
       \/ Return(p)
  \/ Select
  \/ Reconcile

Spec == Init /\ [][Next]_vars

\* -------------------------------------------------------- reconciliation
\* Lots of up to MaxHeld units, so that what is left of a lot can be
\* nothing, the tolerance, or more: two days, one unit cost, both sources.
HeldLotChoices ==
  {AcquisitionLot(Stamp(d, 0), a, a, s) :
     d \in 0..1, a \in 1..MaxHeld, s \in LotSources}

InitReconcile ==
  /\ acquisition_lots \in SeqsUpTo(HeldLotChoices, MaxLots)
  /\ sales \in SeqsUpTo(SaleChoices, MaxSales)
  /\ main_pc = "match"
  /\ NotBuilt
  /\ NotCalled

SpecReconcile == InitReconcile /\ [][Next]_vars

\* ------------------------------------- callers with invalid quantities
\* Quantities a well-formed lot or sale never has.
InvalidAmounts == {-1, 0}

\* Lots and sales of positive, zero and negative quantity.
AnyLotChoices ==
  {AcquisitionLot(Stamp(d, 0), a, c * a, "BUY") :
     d \in 0..1, a \in InvalidAmounts \cup 1..MaxBtc, c \in UnitCosts}

AnySaleChoices ==
  {SaleTransaction(d, a, BtcPrice(CalendarDay(d)), 0, "RIVER_SELL") :
     d \in SaleDates, a \in InvalidAmounts \cup 1..MaxBtc}

InitInvalid ==
  /\ acquisition_lots \in SeqsUpTo(AnyLotChoices, MaxLots)
  /\ sales \in SeqsUpTo(AnySaleChoices, MaxSales)
  /\ main_pc = "match"
  /\ NotBuilt
  /\ NotCalled

SpecInvalid == InitInvalid /\ [][Next]_vars

\* ------------------------------------------------ build_acquisition_lots
\* The lots of one source on whole days.
BuyLotChoices ==
  {lot \in LotChoices : lot.source = "BUY" /\ lot.date = Stamp(CalendarDay(lot.date), 0)}

\* The lots parse_mining_transactions builds: the cost basis is the price
\* of the day times the amount.
MiningLotChoices ==
  {AcquisitionLot(d, a, BtcPrice(CalendarDay(d)) * a, "MINING") :
     d \in LotDates, a \in 1..MaxBtc}

\* The legacy acquisition dates tried: the default and the first lot date.
LegacyDates == {DefaultLegacyDate, Stamp(0, 0)}

\* Mutant: any positive difference makes a legacy lot.
HasLegacy_AnyPositive(legacy_btc) == legacy_btc > 0

\* if legacy_btc > 0.00000001
HasLegacy(legacy_btc) == legacy_btc > Tolerance

\* all_lots.sort(key=lambda x: x.date): stable, ascending
SortByDate(lots) == sorted("FIFO", lots)

\* build_acquisition_lots, from the parsed lists on
build_acquisition_lots(buys, mining, balance, legacy_date) ==
  LET all_lots == buys \o mining
      total_known_btc == sum([k \in 1..Len(all_lots) |-> all_lots[k].btc_amount])
      legacy_btc == balance - total_known_btc
      legacy_lot == AcquisitionLot(legacy_date, legacy_btc, 0, "LEGACY")
  IN  SortByDate(IF HasLegacy(legacy_btc) THEN Append(all_lots, legacy_lot)
                                         ELSE all_lots)

\* main before its first step: the parsed lists and the configuration.
InitBuild ==
  /\ main_pc = "build"
  /\ csv_rows = NoRows
  /\ buy_lots \in SeqsUpTo(BuyLotChoices, MaxBuys)
  /\ mining_lots \in SeqsUpTo(MiningLotChoices, MaxMining)
  /\ current_balance_btc \in 0..MaxBalance
  /\ legacy_acquisition_date \in LegacyDates
  /\ acquisition_lots = <<>>
  /\ sales = <<>>
  /\ NotCalled

\* lots = build_acquisition_lots(config_path=config_path)
Build ==
  /\ main_pc = "build"
  /\ acquisition_lots' =
       build_acquisition_lots(buy_lots, mining_lots, current_balance_btc,
                              legacy_acquisition_date)
  /\ main_pc' = "parse_sales"
  /\ UNCHANGED <<sales, pc, remaining_lots, matched_lots, sale_idx, i,
                 remaining_sale_amount, results, match_origin, build_vars,
                 select_vars, first_results, main_remaining_lots>>

NextBuild == Build

SpecBuild == InitBuild /\ [][NextBuild]_vars

\* ------------------------------------------------------------ the parsers
\* A cell of the Date column: a text that pd.to_datetime(date_str,
\* errors='coerce') turns into a datetime, or one it turns into NaT.
\* (The sale parsers read with utc=True and drop the zone again.)
UnparsableDate == [parses |-> FALSE]
DateString(datetime) == [parses |-> TRUE, datetime |-> datetime]

\* A cell of the quantity column ('BTC Value' or 'Amount'): empty (NaN
\* for pandas) or a number.
NaN == [notna |-> FALSE]
Number(value) == [notna |-> TRUE, value |-> value]

\* A data row of a CSV file.
CsvRow(date_str, amount, fee) ==
  [Date |-> date_str, Amount |-> amount, Fee |-> fee]

\* The rows per file, and the rows per file when all four files have rows.
MaxRows == 2
MaxPipelineRows == 1

\* The days of the rows: one before the price table starts.
RowDates == {Stamp(-1, 0), Stamp(0, 0), Stamp(LongTermDays + 1, 0)}

\* The rows tried: every kind of date with every kind of quantity.
RowChoices ==
  {CsvRow(d, a, 0) :
     d \in {UnparsableDate} \cup {DateString(x) : x \in RowDates},
     a \in {NaN} \cup {Number(v) : v \in InvalidAmounts \cup (1..MaxBtc)}}

\* The rows tried when all four files have rows: the rows a record is
\* made of, and one row without a date.
PipelineRowChoices ==
  {CsvRow(DateString(d), Number(a), 0) :
     d \in {Stamp(0, 0), Stamp(LongTermDays + 1, 0)}, a \in 1..MaxBtc}
  \cup {CsvRow(UnparsableDate, Number(1), 0)}

\* btc_amount = float(row[...]) if pd.notna(row[...]) else 0.0
btc_amount(row) == IF row.Amount.notna THEN row.Amount.value ELSE 0

\* The first pass appends the row to date_rows:
\*   if pd.isna(date): continue
\*   if btc_amount <= 0: continue
DateAndAmountOk(row) == row.Date.parses /\ ~(btc_amount(row) <= 0)

\* Mutant: the first pass ends at the first row it does not keep.
date_rows_UntilFirstSkipped(rows) ==
  LET skipped == {k \in 1..Len(rows) : ~DateAndAmountOk(rows[k])}
  IN  IF skipped = {} THEN rows
      ELSE SubSeq(rows, 1, (CHOOSE k \in skipped :
                              \A j \in skipped : k <= j) - 1)

\* First pass, for _, row in df.iterrows(): the rows kept in date_rows.
date_rows(rows) == SelectSeq(rows, DateAndAmountOk)

\* btc_price = price_lookup.get(date_key, 0.0) with date_key = date.date()
btc_price(row) == BtcPrice(CalendarDay(row.Date.datetime))

\* Second pass: if btc_price <= 0: continue
PriceOk(row) == ~(btc_price(row) <= 0)

\* The rows of date_rows the second pass makes a record of.
priced_rows(rows) == SelectSeq(date_rows(rows), PriceOk)

\* cost_basis = (btc_price * btc_amount) + fee_usd, source="BUY"
parse_buy_transactions(rows) ==
  LET kept == priced_rows(rows)
  IN  [k \in 1..Len(kept) |->
        AcquisitionLot(kept[k].Date.datetime, btc_amount(kept[k]),
                       btc_price(kept[k]) * btc_amount(kept[k])
                         + kept[k].Fee,
                       "BUY")]

\* cost_basis = btc_price * btc_amount, source="MINING"
parse_mining_transactions(rows) ==
  LET kept == priced_rows(rows)
  IN  [k \in 1..Len(kept) |->
        AcquisitionLot(kept[k].Date.datetime, btc_amount(kept[k]),
                       btc_price(kept[k]) * btc_amount(kept[k]),
                       "MINING")]

\* sale_price_per_btc=btc_price, fee_usd from the 'Fee (USD)' column
parse_river_sells(rows) ==
  LET kept == priced_rows(rows)
  IN  [k \in 1..Len(kept) |->
        SaleTransaction(kept[k].Date.datetime, btc_amount(kept[k]),
                        btc_price(kept[k]), kept[k].Fee, "RIVER_SELL")]

\* sale_price_per_btc=btc_price, fee_usd = fee_btc * btc_price
parse_compass_payments(rows) ==
  LET kept == priced_rows(rows)
  IN  [k \in 1..Len(kept) |->
        SaleTransaction(kept[k].Date.datetime, btc_amount(kept[k]),
                        btc_price(kept[k]),
                        kept[k].Fee * btc_price(kept[k]),
                        "COMPASS_PAYMENT")]

\* Mutant: the merged sales are returned in the order of the files.
SortSalesByDate_FileOrder(all_sales) == all_sales

\* all_sales.sort(key=lambda x: x.date)
SortSalesByDate(all_sales) == sorted("FIFO", all_sales)

\* all_sales.extend(river_sales); all_sales.extend(compass_sales); the sort
parse_all_sales(river_rows, compass_rows) ==
  SortSalesByDate(parse_river_sells(river_rows)
                    \o parse_compass_payments(compass_rows))

\* buy_lots = parse_buy_transactions(buy_csv_path, price_lookup)
ParseBuys ==
  /\ main_pc = "parse_buys"
  /\ buy_lots' = parse_buy_transactions(csv_rows["buys"])
  /\ main_pc' = "parse_mining"
  /\ UNCHANGED <<acquisition_lots, sales, pc, remaining_lots, matched_lots,
                 sale_idx, i, remaining_sale_amount, results, match_origin,
                 csv_rows, mining_lots, current_balance_btc,
                 legacy_acquisition_date, select_vars, first_results,
                 main_remaining_lots>>

\* mining_lots = parse_mining_transactions(mining_csv_path, price_lookup)
ParseMining ==
  /\ main_pc = "parse_mining"
  /\ mining_lots' = parse_mining_transactions(csv_rows["mining"])
  /\ main_pc' = "build"
  /\ UNCHANGED <<acquisition_lots, sales, pc, remaining_lots, matched_lots,
                 sale_idx, i, remaining_sale_amount, results, match_origin,
                 csv_rows, buy_lots, current_balance_btc,
                 legacy_acquisition_date, select_vars, first_results,
                 main_remaining_lots>>

\* sales = parse_all_sales(config_path=config_path)
ParseAllSales ==
  /\ main_pc = "parse_sales"
  /\ sales' = parse_all_sales(csv_rows["river"], csv_rows["compass"])
  /\ main_pc' = "match"
  /\ UNCHANGED <<acquisition_lots, pc, remaining_lots, matched_lots,
                 sale_idx, i, remaining_sale_amount, results, match_origin,
                 build_vars, select_vars, first_results,
                 main_remaining_lots>>

\* main from the CSV files on. Either one file has up to MaxRows rows of
\* any kind and the others none, or every file has up to MaxPipelineRows
\* rows and the configured balance is 0 or MaxBalance.
InitPipeline ==
  /\ main_pc = "parse_buys"
  /\ \/ /\ \E f \in Files : \E rows \in SeqsUpTo(RowChoices, MaxRows) :
             csv_rows = [g \in Files |-> IF g = f THEN rows ELSE <<>>]
        /\ current_balance_btc = 0
     \/ /\ csv_rows \in [Files -> SeqsUpTo(PipelineRowChoices,
                                            MaxPipelineRows)]
        /\ current_balance_btc \in {0, MaxBalance}
  /\ buy_lots = <<>>
  /\ mining_lots = <<>>
  /\ legacy_acquisition_date = DefaultLegacyDate
  /\ acquisition_lots = <<>>
  /\ sales = <<>>
  /\ NotCalled

NextPipeline ==
  \/ ParseBuys
  \/ ParseMining
  \/ Build
  \/ ParseAllSales
  \/ Next

SpecPipeline == InitPipeline /\ [][NextPipeline]_vars

\* ------------------------------------------ other callers than main
\* Init with the lots drawn from BuyLotChoices.
InitBuysOnly ==
  /\ Init
  /\ \A k \in 1..Len(acquisition_lots) : acquisition_lots[k] \in BuyLotChoices

\* A caller that starts the three functions in any order and lets them
\* run side by side, a step of one between the steps of the others.
NextInterleaved ==
  \E p \in Methods :
    \/ Enter(p)
    \/ NextSale(p)
    \/ Break(p)
    \/ SkipExhausted(p)
    \/ SkipFuture(p)
    \/ Allocate(p)
    \/ Return(p)

SpecInterleaved == InitBuysOnly /\ [][NextInterleaved]_vars

\* A caller keeps what a function has returned and calls it once more on
\* the same lists, while no other call is under way.
Recall(p) ==
  /\ main_pc = "match"
  /\ pc[p] = "returned"
  /\ first_results[p] = NoResults
  /\ \A q \in Methods \ {p} : pc[q] \in {"call", "returned"}
  /\ first_results' = [first_results EXCEPT ![p] = results[p]]
  /\ pc' = [pc EXCEPT ![p] = "call"]
  /\ UNCHANGED <<acquisition_lots, sales, remaining_lots, matched_lots,
                 sale_idx, i, remaining_sale_amount, results, match_origin,
                 main_pc, build_vars, select_vars, main_remaining_lots>>

NextTwice ==
  \/ Next
  \/ \E p \in Methods : Recall(p)

SpecTwice == InitBuysOnly /\ [][NextTwice]_vars

\* ------------------------------------------- the functions as a whole
\* The inner loop over remaining_lots from position k on, for one sale of
\* which remaining_sale is still to be filled: the counters it leaves and
\* the matches it appends.
RECURSIVE ForLots(_, _, _, _)
ForLots(lots_left, sale, remaining_sale, k) ==
  IF k > Len(lots_left) \/ remaining_sale <= 0
    THEN [remaining_lots |-> lots_left, matched_lots |-> <<>>]
  ELSE IF \/ LotExhausted(lots_left[k].remaining_amount)
          \/ AcquiredAfterSale(lots_left[k].lot, sale)
    THEN ForLots(lots_left, sale, remaining_sale, k + 1)
  ELSE LET amount_to_use ==
             AmountToUse(remaining_sale, lots_left[k].remaining_amount)
           rest ==
             ForLots([lots_left EXCEPT ![k].remaining_amount = @ - amount_to_use],
                     sale, remaining_sale - amount_to_use, k + 1)
       IN  [remaining_lots |-> rest.remaining_lots,
            matched_lots |->
              <<MatchedLot(sale, lots_left[k].lot, amount_to_use)>>
                \o rest.matched_lots]

\* The outer loop over the sales from position k on: the matches it appends.
RECURSIVE ForSales(_, _, _)
ForSales(lots_left, sale_list, k) ==
  IF k > Len(sale_list) THEN <<>>
  ELSE LET inner == ForLots(lots_left, sale_list[k], sale_list[k].btc_amount, 1)
       IN  inner.matched_lots
             \o ForSales(inner.remaining_lots, sale_list, k + 1)

\* match_sales_to_lots_fifo / _lifo / _hifo called on its own
match_sales_to_lots(policy, lots, sale_list) ==
  MatchingResults(policy,
                  ForSales(InitialRemaining(sorted(policy, lots)), sale_list, 1))

\* ================================================================ claims
\* Sum of f[x] over the x in S.
RECURSIVE SumOver(_, _)
SumOver(f, S) ==
  IF S = {} THEN 0
  ELSE LET x == CHOOSE y \in S : TRUE
       IN  f[x] + SumOver(f, S \ {x})

MatchIdx(p) == 1..Len(matched_lots[p])
LotIdx(p) == 1..Len(remaining_lots[p])

\* lot_amount_used of every match of policy p
Used(p) == [k \in MatchIdx(p) |-> matched_lots[p][k].lot_amount_used]

\* Quantity allocated so far, under policy p, to the k-th sale
AllocatedToSale(p, k) ==
  SumOver(Used(p), {m \in MatchIdx(p) : match_origin[p][m].sale = k})

\* Quantity drawn so far, under policy p, from the j-th lot of the sorted list
DrawnFromLot(p, j) ==
  SumOver(Used(p), {m \in MatchIdx(p) : match_origin[p][m].lot = j})

\* The engine has just left the inner loop of the k-th sale.
JustFinishedSale(p, k) == pc[p] = "for_sale" /\ sale_idx[p] = k

\* C1: under FIFO, LIFO and HIFO alike, no emitted match pairs a disposal
\* with a lot whose acquisition timestamp is strictly later than the
\* disposal's timestamp.
C1_DateOrdering ==
  \A p \in Methods : \A k \in MatchIdx(p) :
    ~(matched_lots[p][k].lot_date > matched_lots[p][k].sale_date)

\* C1 witness: HIFO has matched a sale although a lot of strictly higher
\* unit cost, acquired after that sale, stood in front of the lot it used.
C1_Witness ==
  \E k \in MatchIdx("HIFO") : \E j \in LotIdx("HIFO") :
    /\ j < match_origin["HIFO"][k].lot
    /\ remaining_lots["HIFO"][j].lot.date > matched_lots["HIFO"][k].sale_date
    /\ remaining_lots["HIFO"][j].lot.price_per_btc
         > matched_lots["HIFO"][k].lot_cost_basis_per_btc

\* C2: the quantity allocated to one disposal never exceeds the disposal's
\* quantity, and when the engine has finished a disposal with less than its
\* quantity allocated, every lot acquired no later than the disposal has
\* zero remaining quantity.
C2_Conservation ==
  \A p \in Methods : \A k \in 1..Len(sales) :
    /\ AllocatedToSale(p, k) <= sales[k].btc_amount
    /\ (JustFinishedSale(p, k) /\ AllocatedToSale(p, k) < sales[k].btc_amount)
         => \A j \in LotIdx(p) :
              remaining_lots[p][j].lot.date <= sales[k].date
                => remaining_lots[p][j].remaining_amount = 0

\* C2 witness: a disposal has just been finished with part, but not all, of
\* its quantity allocated.
C2_Witness ==
  \E p \in Methods : \E k \in 1..Len(sales) :
    /\ JustFinishedSale(p, k)
    /\ AllocatedToSale(p, k) > 0
    /\ AllocatedToSale(p, k) < sales[k].btc_amount

\* C3: at every point of the processing each lot's remaining counter lies
\* between 0 and the lot's quantity, and the quantity drawn from one lot by
\* all the matches never exceeds the lot's quantity.
C3_LotConsumptionBound ==
  \A p \in Methods : \A j \in LotIdx(p) :
    /\ 0 <= remaining_lots[p][j].remaining_amount
    /\ remaining_lots[p][j].remaining_amount <= remaining_lots[p][j].lot.btc_amount
    /\ DrawnFromLot(p, j) <= remaining_lots[p][j].lot.btc_amount

\* C3 witness: two matches have drawn on the same lot and used it up.
C3_Witness ==
  \E p \in Methods : \E j \in LotIdx(p) :
    /\ Cardinality({m \in MatchIdx(p) : match_origin[p][m].lot = j}) = 2
    /\ DrawnFromLot(p, j) = remaining_lots[p][j].lot.btc_amount
    /\ remaining_lots[p][j].remaining_amount = 0

\* The sums of C4, taken over the matches of a returned result r.
ResultIdx(r) == 1..Len(r.matched_lots)
GainOf(r) == [k \in ResultIdx(r) |-> r.matched_lots[k].gain_loss]
CostOf(r) == [k \in ResultIdx(r) |-> r.matched_lots[k].cost_basis_used]
ProceedsOf(r) ==
  [k \in ResultIdx(r) |->
     r.matched_lots[k].sale_price_per_btc * r.matched_lots[k].lot_amount_used]
LongTermIdx(r) == {k \in ResultIdx(r) : r.matched_lots[k].is_long_term}

\* C4: in every returned MatchingResults, total_realized_gain is the sum of
\* gain_loss over matched_lots, short_term_gain and long_term_gain are the
\* sums over the matches with is_long_term false and true (so they add up
\* to the total), total_cost_basis is the sum of cost_basis_used and
\* total_proceeds the sum of sale_price_per_btc * lot_amount_used.
C4_AggregateConsistency ==
  \A p \in Methods :
    pc[p] = "returned" =>
      LET r == results[p]
      IN  /\ r.matched_lots = matched_lots[p]
          /\ r.total_realized_gain = SumOver(GainOf(r), ResultIdx(r))
          /\ r.long_term_gain = SumOver(GainOf(r), LongTermIdx(r))
          /\ r.short_term_gain
               = SumOver(GainOf(r), ResultIdx(r) \ LongTermIdx(r))
          /\ r.short_term_gain + r.long_term_gain = r.total_realized_gain
          /\ r.total_cost_basis = SumOver(CostOf(r), ResultIdx(r))
          /\ r.total_proceeds = SumOver(ProceedsOf(r), ResultIdx(r))

\* C4 witness: a returned result holds a long-term and a short-term match,
\* both with a gain other than zero.
C4_Witness ==
  \E p \in Methods :
    /\ pc[p] = "returned"
    /\ \E k \in ResultIdx(results[p]) :
         /\ results[p].matched_lots[k].is_long_term
         /\ results[p].matched_lots[k].gain_loss # 0
    /\ \E k \in ResultIdx(results[p]) :
         /\ ~results[p].matched_lots[k].is_long_term
         /\ results[p].matched_lots[k].gain_loss # 0

\* The caller has supplied the sales in ascending date order.
SalesAscending ==
  \A j, k \in 1..Len(sales) : j < k => sales[j].date <= sales[k].date

\* C5 as stated: whatever the order in which the caller supplies the
\* disposals, the matches of a returned result appear in
\* disposal-chronological order.
C5_MatchesChronological ==
  \A p \in Methods :
    pc[p] = "returned" =>
      \A j, k \in ResultIdx(results[p]) :
        j < k => results[p].matched_lots[j].sale_date
                   <= results[p].matched_lots[k].sale_date

\* C5 amended: the engine sorts only the lots and processes the disposals
\* in the order supplied: every match carries the date of the disposal
\* whose iteration emitted it, the matches appear in the supplied order of
\* their disposals, and they are in disposal-chronological order when the
\* caller supplies the disposals in ascending date order.
C5_MatchesInSuppliedOrder ==
  \A p \in Methods :
    /\ \A k \in MatchIdx(p) :
         /\ matched_lots[p][k].sale_date = sales[match_origin[p][k].sale].date
         /\ matched_lots[p][k].sale_amount
              = sales[match_origin[p][k].sale].btc_amount
    /\ \A j, k \in MatchIdx(p) :
         j < k => match_origin[p][j].sale <= match_origin[p][k].sale
    /\ SalesAscending =>
         \A j, k \in MatchIdx(p) :
           j < k => matched_lots[p][j].sale_date <= matched_lots[p][k].sale_date

\* C5 witness: two disposals supplied in ascending order of distinct dates
\* have both been matched in a returned result.
C5_Witness ==
  \E p \in Methods :
    /\ pc[p] = "returned"
    /\ Len(sales) = 2
    /\ sales[1].date < sales[2].date
    /\ \A s \in 1..2 : \E k \in MatchIdx(p) : match_origin[p][k].sale = s

\* The step appends a match to matched_lots[p].
Emits(p) == Len(matched_lots'[p]) = Len(matched_lots[p]) + 1

\* The match appended by the step (a formula of the step).
Emitted(p) == matched_lots'[p][Len(matched_lots'[p])]

\* C6: whenever match_sales_to_lots_fifo emits a match drawing on lot L,
\* every lot acquired strictly earlier than L has zero remaining quantity
\* at that moment.
C6_FifoOrder ==
  [][Emits("FIFO") =>
       \A j \in LotIdx("FIFO") :
         remaining_lots["FIFO"][j].lot.date < Emitted("FIFO").lot_date
           => remaining_lots["FIFO"][j].remaining_amount = 0]_vars

\* C6 witness: FIFO has emitted a match from a lot while another lot was
\* acquired strictly earlier.
C6_Witness ==
  \E k \in MatchIdx("FIFO") : \E j \in LotIdx("FIFO") :
    remaining_lots["FIFO"][j].lot.date < matched_lots["FIFO"][k].lot_date

\* C7: whenever match_sales_to_lots_lifo emits a match for disposal D
\* drawing on lot L, every lot acquired strictly later than L and not later
\* than D has zero remaining quantity at that moment.
C7_LifoOrder ==
  [][Emits("LIFO") =>
       \A j \in LotIdx("LIFO") :
         (/\ remaining_lots["LIFO"][j].lot.date > Emitted("LIFO").lot_date
          /\ remaining_lots["LIFO"][j].lot.date <= Emitted("LIFO").sale_date)
           => remaining_lots["LIFO"][j].remaining_amount = 0]_vars

\* C7 witness: LIFO has emitted a match from a lot while another lot was
\* acquired strictly later, though not later than the disposal.
C7_Witness ==
  \E k \in MatchIdx("LIFO") : \E j \in LotIdx("LIFO") :
    /\ remaining_lots["LIFO"][j].lot.date > matched_lots["LIFO"][k].lot_date
    /\ remaining_lots["LIFO"][j].lot.date <= matched_lots["LIFO"][k].sale_date

\* C8: whenever match_sales_to_lots_hifo emits a match for disposal D
\* drawing on lot L, every lot acquired no later than D whose cost basis
\* per unit is strictly higher than L's has zero remaining quantity at that
\* moment.
C8_HifoOrder ==
  [][Emits("HIFO") =>
       \A j \in LotIdx("HIFO") :
         (/\ remaining_lots["HIFO"][j].lot.date <= Emitted("HIFO").sale_date
          /\ remaining_lots["HIFO"][j].lot.price_per_btc
               > Emitted("HIFO").lot_cost_basis_per_btc)
           => remaining_lots["HIFO"][j].remaining_amount = 0]_vars

\* C8 witness: HIFO has emitted a match from a lot while another lot,
\* acquired no later than the disposal, had a strictly higher unit cost.
C8_Witness ==
  \E k \in MatchIdx("HIFO") : \E j \in LotIdx("HIFO") :
    /\ remaining_lots["HIFO"][j].lot.date <= matched_lots["HIFO"][k].sale_date
    /\ remaining_lots["HIFO"][j].lot.price_per_btc
         > matched_lots["HIFO"][k].lot_cost_basis_per_btc

\* C9: for every match, is_long_term is true exactly when
\* holding_period_days > 365; a lot acquired exactly 365 days before the
\* disposal is short-term and one acquired exactly 366 days before it is
\* long-term.
C9_LongTermThreshold ==
  \A p \in Methods : \A k \in MatchIdx(p) :
    LET m == matched_lots[p][k]
    IN  /\ m.is_long_term <=> m.holding_period_days > LongTermDays
        /\ m.sale_date - m.lot_date = LongTermDays * TicksPerDay
             => ~m.is_long_term
        /\ m.sale_date - m.lot_date = (LongTermDays + 1) * TicksPerDay
             => m.is_long_term

\* C9 witness: one result holds a match of a lot acquired exactly 365 days
\* before the disposal and a match of a lot acquired exactly 366 days
\* before it.
C9_Witness ==
  \E p \in Methods : \E j, k \in MatchIdx(p) :
    /\ matched_lots[p][j].sale_date - matched_lots[p][j].lot_date
         = LongTermDays * TicksPerDay
    /\ matched_lots[p][k].sale_date - matched_lots[p][k].lot_date
         = (LongTermDays + 1) * TicksPerDay

\* C10 as stated: for every match, holding_period_days is the number of
\* days between the calendar date of the acquisition and the calendar date
\* of the disposal, whatever the times of day, and is_long_term follows it.
C10_CalendarDateHolding ==
  \A p \in Methods : \A k \in MatchIdx(p) :
    LET m == matched_lots[p][k]
        days == CalendarDay(m.sale_date) - CalendarDay(m.lot_date)
    IN  /\ m.holding_period_days = days
        /\ m.is_long_term <=> days > LongTermDays

\* The call of policy p takes a step.
Stepped(p) == pc'[p] # pc[p] \/ i'[p] # i[p] \/ sale_idx'[p] # sale_idx[p]

\* The call of policy p is at a lot that has quantity left, for a sale
\* that has quantity left: the date check decides whether a match follows.
AtDateCheck(p) ==
  /\ pc[p] = "for_lot"
  /\ remaining_sale_amount[p] > 0
  /\ remaining_lots[p][i[p]].remaining_amount > 0

\* The lot and the sale of the current loop iteration of policy p
CurrentLot(p) == remaining_lots[p][i[p]].lot
CurrentSale(p) == sales[sale_idx[p]]

\* C11 as stated: eligibility depends on the calendar date only; a lot
\* with quantity left is passed over for a sale with quantity left only
\* when its acquisition date is strictly after the disposal date.
C11_EligibleByCalendarDate ==
  [][\A p \in Methods :
       (AtDateCheck(p) /\ Stepped(p) /\ ~Emits(p))
         => CalendarDay(CurrentLot(p).date) > CalendarDay(CurrentSale(p).date)]_vars

\* C11 amended: eligibility depends on the full timestamp; a lot with
\* quantity left, met by a sale with quantity left, is allocated from
\* exactly when its acquisition timestamp is not later than the disposal's
\* timestamp, so a lot acquired on the disposal's calendar date at a later
\* time of day is skipped.
C11_EligibleByTimestamp ==
  [][\A p \in Methods :
       (AtDateCheck(p) /\ Stepped(p))
         => (Emits(p) <=> CurrentLot(p).date <= CurrentSale(p).date)]_vars

\* C11 witness: a disposal has been finished short of its quantity while a
\* lot acquired on the same calendar date, at a later time of day, still
\* has quantity left.
C11_Witness ==
  \E p \in Methods : \E k \in 1..Len(sales) : \E j \in LotIdx(p) :
    /\ JustFinishedSale(p, k)
    /\ AllocatedToSale(p, k) < sales[k].btc_amount
    /\ CalendarDay(remaining_lots[p][j].lot.date) = CalendarDay(sales[k].date)
    /\ remaining_lots[p][j].lot.date > sales[k].date
    /\ remaining_lots[p][j].remaining_amount > 0

\* The lot and the sale a match of policy p was made from.
OriginLot(p, k) == remaining_lots[p][match_origin[p][k].lot].lot
OriginSale(p, k) == sales[match_origin[p][k].sale]

\* C12: each emitted match allocates min(disposal remaining, lot
\* remaining), records cost_basis_used = quantity * the lot's cost basis
\* per unit and gain_loss = (disposal unit price - lot cost basis per unit)
\* * quantity, and the step decrements both remaining counters by the
\* quantity allocated.
C12_MatchRecordValues ==
  [][\A p \in Methods :
       Emits(p) =>
         LET lot == CurrentLot(p)
             sale == CurrentSale(p)
             lot_remaining == remaining_lots[p][i[p]].remaining_amount
             quantity == Min(remaining_sale_amount[p], lot_remaining)
         IN  /\ Emitted(p).lot_amount_used = quantity
             /\ Emitted(p).cost_basis_used = quantity * lot.price_per_btc
             /\ Emitted(p).gain_loss =
                  (sale.sale_price_per_btc - lot.price_per_btc) * quantity
             /\ remaining_sale_amount'[p] =
                  remaining_sale_amount[p] - quantity
             /\ remaining_lots'[p][i[p]].remaining_amount =
                  lot_remaining - quantity]_vars

\* C12 witness: a match that takes part of a lot bought above zero cost
\* and sold at another price, so that quantity, cost and gain all differ.
C12_Witness ==
  \E p \in Methods : \E k \in MatchIdx(p) :
    /\ matched_lots[p][k].lot_amount_used < OriginLot(p, k).btc_amount
    /\ matched_lots[p][k].cost_basis_used > 0
    /\ matched_lots[p][k].cost_basis_used < OriginLot(p, k).cost_basis_usd
    /\ matched_lots[p][k].gain_loss # 0

\* C13: every emitted match has a strictly positive quantity that is at
\* most the disposal's quantity and at most the lot's quantity, under
\* every policy.
C13_PositiveBoundedQuantity ==
  \A p \in Methods : \A k \in MatchIdx(p) :
    /\ matched_lots[p][k].lot_amount_used > 0
    /\ matched_lots[p][k].lot_amount_used <= OriginSale(p, k).btc_amount
    /\ matched_lots[p][k].lot_amount_used <= OriginLot(p, k).btc_amount

\* C13 witness: a match whose quantity is strictly below both the
\* disposal's quantity and the lot's quantity (the rest of a lot that an
\* earlier disposal has drawn from, given to a larger disposal).
C13_Witness ==
  \E p \in Methods : \E k \in MatchIdx(p) :
    /\ matched_lots[p][k].lot_amount_used < OriginSale(p, k).btc_amount
    /\ matched_lots[p][k].lot_amount_used < OriginLot(p, k).btc_amount

\* C15: when the lot list or the disposal list (or both) is empty, each
\* matching function returns a result with no matches and all five
\* aggregate totals equal to zero.
C15_EmptyInputs ==
  \A p \in Methods :
    (pc[p] = "returned" /\ (acquisition_lots = <<>> \/ sales = <<>>)) =>
      /\ results[p].method = p
      /\ results[p].matched_lots = <<>>
      /\ results[p].total_realized_gain = 0
      /\ results[p].short_term_gain = 0
      /\ results[p].long_term_gain = 0
      /\ results[p].total_cost_basis = 0
      /\ results[p].total_proceeds = 0

\* C15 witness: all three functions have returned on an empty lot list
\* and a non-empty disposal list.
C15_Witness ==
  /\ acquisition_lots = <<>>
  /\ sales # <<>>
  /\ \A p \in Methods : pc[p] = "returned"

\* C15, the other case: all three functions have returned on a non-empty
\* lot list and an empty disposal list.
C15_WitnessNoSales ==
  /\ acquisition_lots # <<>>
  /\ sales = <<>>
  /\ \A p \in Methods : pc[p] = "returned"

\* C16: matching leaves its inputs unchanged: no step of any policy's run
\* changes a field of a lot or of a disposal, nor the order or the length
\* of the caller's lot list and disposal list; in the run's own list of
\* (lot, remaining) pairs only the remaining counters change.
C16_InputsUnchanged ==
  [][/\ acquisition_lots' = acquisition_lots
     /\ sales' = sales
     /\ \A p \in Methods :
          pc[p] # "call" =>
            /\ Len(remaining_lots'[p]) = Len(remaining_lots[p])
            /\ \A j \in LotIdx(p) :
                 remaining_lots'[p][j].lot = remaining_lots[p][j].lot]_vars

\* C16 witness: a run has returned matches made from a lot list that the
\* policy does not walk in the caller's order.
C16_Witness ==
  \E p \in Methods :
    /\ pc[p] = "returned"
    /\ results[p].matched_lots # <<>>
    /\ sorted(p, acquisition_lots) # acquisition_lots
    /\ \E j \in LotIdx(p) :
         remaining_lots[p][j].remaining_amount
           < remaining_lots[p][j].lot.btc_amount

\* Position of a policy in the order FIFO, LIFO, HIFO
OrderOf(p) == CHOOSE k \in 1..Len(MainOrder) : MainOrder[k] = p

\* C19: when the method is OPTIMAL, the selected policy has the minimum
\* total realized gain of the three results, no policy earlier in the
\* order FIFO, LIFO, HIFO has the same gain, and the results used for
\* reporting are the ones the selected policy produced.
C19_OptimalSelection ==
  (main_pc = "report" /\ preferred_method = "OPTIMAL") =>
    /\ selected_method \in Methods
    /\ \A q \in Methods :
         /\ results[selected_method].total_realized_gain
              <= results[q].total_realized_gain
         /\ OrderOf(q) < OrderOf(selected_method) =>
              results[selected_method].total_realized_gain
                < results[q].total_realized_gain
    /\ selected_results = results[selected_method]
    /\ selected_results.method = selected_method

\* C19 witness: OPTIMAL has selected LIFO, whose gain is below FIFO's and
\* tied with HIFO's.
C19_Witness ==
  /\ main_pc = "report"
  /\ preferred_method = "OPTIMAL"
  /\ selected_method = "LIFO"
  /\ results["LIFO"].total_realized_gain < results["FIFO"].total_realized_gain
  /\ results["LIFO"].total_realized_gain = results["HIFO"].total_realized_gain
  /\ selected_results = results["LIFO"]

\* The list s without its k-th element.
RemoveAt(s, k) ==
  [j \in 1..(Len(s) - 1) |-> IF j < k THEN s[j] ELSE s[j + 1]]

\* What the sales before the k-th have drawn from the j-th lot of policy p.
DrawnBefore(p, j, k) ==
  SumOver(Used(p), {m \in MatchIdx(p) : /\ match_origin[p][m].lot = j
                                        /\ match_origin[p][m].sale < k})

\* When the k-th sale is begun, no lot acquired at or before it has
\* quantity left.
StarvedAtStart(p, k) ==
  \A j \in LotIdx(p) :
    remaining_lots[p][j].lot.date <= sales[k].date =>
      remaining_lots[p][j].lot.btc_amount - DrawnBefore(p, j, k) <= 0

\* C14: a disposal for which no lot acquired on or before its date has
\* quantity left yields no match, the run still returns its result, and
\* that result holds the matches the policy makes on the same lots when
\* the unmatched disposal is taken out of the list.
C14_UnderMatchingLocal ==
  \A p \in Methods : \A k \in 1..Len(sales) :
    (pc[p] # "call" /\ StarvedAtStart(p, k)) =>
      /\ AllocatedToSale(p, k) = 0
      /\ pc[p] = "returned" =>
           results[p] =
             match_sales_to_lots(p, acquisition_lots, RemoveAt(sales, k))

\* C14 witness: a run has returned; its first disposal found no lot
\* acquired yet and got no match, its second disposal is matched.
C14_Witness ==
  \E p \in Methods :
    /\ pc[p] = "returned"
    /\ Len(sales) = 2
    /\ StarvedAtStart(p, 1)
    /\ AllocatedToSale(p, 1) = 0
    /\ AllocatedToSale(p, 2) > 0

\* C17: running the same policy twice on the same lot list and disposal
\* list yields identical results: the same matches in the same order and
\* the same totals.
C17_Deterministic ==
  \A p \in Methods :
    (pc[p] = "returned" /\ first_results[p] # NoResults) =>
      results[p] = first_results[p]

\* C17 witness: a policy has returned for the second time, with at least
\* two matches, one of them from part of a lot.
C17_Witness ==
  \E p \in Methods :
    /\ pc[p] = "returned"
    /\ first_results[p] # NoResults
    /\ Len(results[p].matched_lots) >= 2
    /\ \E j \in LotIdx(p) :
         /\ remaining_lots[p][j].remaining_amount > 0
         /\ remaining_lots[p][j].remaining_amount
              < remaining_lots[p][j].lot.btc_amount

\* C18: the result of each of the three functions on given lots and
\* disposals is the same whether it runs alone, before, after or
\* interleaved with the other two: it is what the function computes on its
\* own from counters seeded at the full lot quantities.
C18_RunsIndependent ==
  \A p \in Methods :
    pc[p] = "returned" =>
      results[p] = match_sales_to_lots(p, acquisition_lots, sales)

\* C18 witness: FIFO has returned matches while HIFO, begun before LIFO,
\* is in the middle of its loop and has drawn from a lot.
C18_Witness ==
  /\ pc["FIFO"] = "returned"
  /\ results["FIFO"].matched_lots # <<>>
  /\ pc["HIFO"] = "for_lot"
  /\ matched_lots["HIFO"] # <<>>
  /\ pc["LIFO"] = "call"

\* The positions of the lots tagged LEGACY in a list.
LegacyIdx(lots) == {k \in 1..Len(lots) : lots[k].source = "LEGACY"}

\* The sum of the amounts of the lots of a list.
KnownBtc(lots) == SumOver([k \in 1..Len(lots) |-> lots[k].btc_amount],
                          1..Len(lots))

\* current_balance - (sum of known lot quantities)
LegacyDifference ==
  current_balance_btc - (KnownBtc(buy_lots) + KnownBtc(mining_lots))

\* C20: build_acquisition_lots adds exactly one lot tagged LEGACY, of
\* quantity current_balance - (sum of known lot quantities), cost basis 0
\* and the fallback acquisition date, when that difference exceeds the
\* tolerance, and adds no LEGACY lot otherwise; the known lots are all kept.
C20_LegacyLotSynthesis ==
  main_pc = "parse_sales" =>
    /\ Len(acquisition_lots) =
         Len(buy_lots) + Len(mining_lots)
           + Cardinality(LegacyIdx(acquisition_lots))
    /\ IF LegacyDifference > Tolerance
         THEN /\ Cardinality(LegacyIdx(acquisition_lots)) = 1
              /\ \A k \in LegacyIdx(acquisition_lots) :
                   /\ acquisition_lots[k].btc_amount = LegacyDifference
                   /\ acquisition_lots[k].cost_basis_usd = 0
                   /\ acquisition_lots[k].price_per_btc = 0
                   /\ acquisition_lots[k].date = legacy_acquisition_date
         ELSE LegacyIdx(acquisition_lots) = {}

\* C20 witness: two known lots and a balance above their sum by more than
\* the tolerance: the built list holds three lots, the legacy lot first.
C20_Witness ==
  /\ main_pc = "parse_sales"
  /\ Len(buy_lots) = 1
  /\ Len(mining_lots) = 1
  /\ LegacyDifference > Tolerance
  /\ Len(acquisition_lots) = 3
  /\ acquisition_lots[1].source = "LEGACY"

\* C20, the other cases: a built list without legacy lot, for a difference
\* that is exactly the tolerance, zero, or negative.
C20_WitnessAtTolerance ==
  main_pc = "parse_sales" /\ buy_lots # <<>> /\ LegacyDifference = Tolerance
C20_WitnessNoDifference ==
  main_pc = "parse_sales" /\ buy_lots # <<>> /\ LegacyDifference = 0
C20_WitnessNegative ==
  main_pc = "parse_sales" /\ buy_lots # <<>> /\ LegacyDifference < 0

\* The matches of the selected results and the entries of main's
\* remaining_lots.
SelectedIdx == 1..Len(selected_results.matched_lots)
Reported == {main_remaining_lots[k] : k \in 1..Len(main_remaining_lots)}
ListedAs(lot, amount) == [lot |-> lot, remaining_amount |-> amount] \in Reported
Omitted(lot) == \A entry \in Reported : entry.lot # lot
LotsIdx == 1..Len(acquisition_lots)

\* The sum of lot_amount_used over the selected matches that carry the
\* lot's date and source.
CarriedUsage(lot) ==
  SumOver([m \in SelectedIdx |-> selected_results.matched_lots[m].lot_amount_used],
          {m \in SelectedIdx :
             /\ selected_results.matched_lots[m].lot_date = lot.date
             /\ selected_results.matched_lots[m].lot_source = lot.source})

\* The (date, source) pairs of the caller's lots are pairwise distinct.
DistinctKeys ==
  \A j, k \in LotsIdx :
    j # k => \/ acquisition_lots[j].date # acquisition_lots[k].date
             \/ acquisition_lots[j].source # acquisition_lots[k].source

\* C21: for lots with pairwise distinct (date, source), the reconciliation
\* lists each lot with its quantity minus the sum of lot_amount_used over
\* the matches carrying its date and source exactly when that remainder
\* is above the tolerance, and lists nothing else; a lot no match refers
\* to has its full quantity as remainder.
C21_RemainingReconciliation ==
  (main_pc = "done" /\ DistinctKeys) =>
    /\ \A k \in LotsIdx :
         LET lot == acquisition_lots[k]
             remainder == lot.btc_amount - CarriedUsage(lot)
         IN  /\ remainder > Tolerance => ListedAs(lot, remainder)
             /\ remainder <= Tolerance => Omitted(lot)
             /\ (CarriedUsage(lot) = 0 /\ lot.btc_amount > Tolerance)
                  => ListedAs(lot, lot.btc_amount)
    /\ Len(main_remaining_lots) =
         Cardinality({k \in LotsIdx :
                        acquisition_lots[k].btc_amount
                          - CarriedUsage(acquisition_lots[k]) > Tolerance})

\* C21 witness: two lots of distinct (date, source); one is listed with
\* what two matches have left of it, the other is left out with a
\* remainder equal to the tolerance.
C21_Witness ==
  /\ main_pc = "done"
  /\ DistinctKeys
  /\ Len(acquisition_lots) = 2
  /\ Len(main_remaining_lots) = 1
  /\ main_remaining_lots[1].remaining_amount > Tolerance
  /\ main_remaining_lots[1].remaining_amount < main_remaining_lots[1].lot.btc_amount
  /\ \E k \in LotsIdx :
       acquisition_lots[k].btc_amount - CarriedUsage(acquisition_lots[k])
         = Tolerance

\* What the selected policy's run has drawn from the lots that have the
\* date and the source of the given lot.
OriginUsage(lot) ==
  SumOver(Used(selected_method),
          {m \in MatchIdx(selected_method) :
             /\ OriginLot(selected_method, m).date = lot.date
             /\ OriginLot(selected_method, m).source = lot.source})

\* Two lots of the caller's list share date and source.
Collide(j, k) ==
  /\ j # k
  /\ acquisition_lots[j].date = acquisition_lots[k].date
  /\ acquisition_lots[j].source = acquisition_lots[k].source

\* C25: when two distinct lots share date and source, the reconciliation
\* subtracts from each of them what the run has drawn from both together,
\* and lists each with that remainder when it is above the tolerance.
C25_IdentityCollision ==
  main_pc = "done" =>
    \A j, k \in LotsIdx :
      Collide(j, k) =>
        LET lot == acquisition_lots[j]
            remainder == lot.btc_amount - OriginUsage(lot)
        IN  /\ OriginUsage(lot) = OriginUsage(acquisition_lots[k])
            /\ remainder > Tolerance => ListedAs(lot, remainder)
            /\ remainder <= Tolerance => Omitted(lot)

\* C25 witness: two lots share date and source, and the total remaining
\* quantity reported plus the total quantity allocated by the matches is
\* not the total quantity of the lots.
C25_Witness ==
  /\ main_pc = "done"
  /\ \E j, k \in LotsIdx : Collide(j, k)
  /\ SumOver([k \in 1..Len(main_remaining_lots) |->
                main_remaining_lots[k].remaining_amount],
             1..Len(main_remaining_lots))
       + SumOver(Used(selected_method), MatchIdx(selected_method))
       # SumOver([k \in LotsIdx |-> acquisition_lots[k].btc_amount], LotsIdx)

\* C29: for lots with pairwise distinct (date, source), the reconciliation
\* of the selected policy's matches lists every lot whose remaining
\* counter at the end of that policy's run is above the tolerance, with
\* the value of the counter, and leaves out the others.
C29_ReconciliationAgrees ==
  (main_pc = "done" /\ DistinctKeys) =>
    /\ \A j \in LotIdx(selected_method) :
         LET lot == remaining_lots[selected_method][j].lot
             counter == remaining_lots[selected_method][j].remaining_amount
         IN  /\ counter > Tolerance => ListedAs(lot, counter)
             /\ counter <= Tolerance => Omitted(lot)
    /\ Len(main_remaining_lots) =
         Cardinality({j \in LotIdx(selected_method) :
                        remaining_lots[selected_method][j].remaining_amount
                          > Tolerance})

\* C29 witness: under each policy in turn, two lots of the same date and
\* different sources have been drawn from, one is listed with its
\* counter and one is left out.
C29_Witness ==
  /\ main_pc = "done"
  /\ DistinctKeys
  /\ selected_method = "HIFO"
  /\ Len(acquisition_lots) = 2
  /\ acquisition_lots[1].date = acquisition_lots[2].date
  /\ \A j \in LotIdx("HIFO") :
       remaining_lots["HIFO"][j].remaining_amount
         < remaining_lots["HIFO"][j].lot.btc_amount
  /\ Len(main_remaining_lots) = 1

\* C22 as stated: the engine takes a remaining quantity at or below the
\* tolerance for zero: no match is emitted from a lot whose remaining
\* quantity is at or below the tolerance, nor for a disposal whose
\* remaining quantity is at or below the tolerance.
C22_EngineTolerance ==
  [][\A p \in Methods :
       Emits(p) =>
         /\ remaining_lots[p][i[p]].remaining_amount > Tolerance
         /\ remaining_sale_amount[p] > Tolerance]_vars

\* The key two lots tie on under a policy: the acquisition timestamp for
\* FIFO and LIFO, the cost basis per unit for HIFO.
TieKey(p, lot) == IF p = "HIFO" THEN lot.price_per_btc ELSE lot.date

\* The lots in the order in which the run of policy p walks them.
WalkOrder(p) == [j \in LotIdx(p) |-> remaining_lots[p][j].lot]

\* The lots of a list that have the given key under policy p, in the
\* order of the list.
WithKey(p, lots, key) ==
  LET HasKey(lot) == TieKey(p, lot) = key
  IN  SelectSeq(lots, HasKey)

\* The first position of a lot in the caller's list.
CallerPosition(lot) ==
  CHOOSE j \in LotsIdx :
    /\ acquisition_lots[j] = lot
    /\ \A k \in 1..(j - 1) : acquisition_lots[k] # lot

\* C24: under each policy, lots of equal sort key are walked in the order
\* of the caller's list, and two matches of one disposal made from two
\* lots of equal sort key come in the caller's order of those lots.
C24_TieBreakStability ==
  \A p \in Methods :
    pc[p] # "call" =>
      /\ \A k \in LotsIdx :
           LET key == TieKey(p, acquisition_lots[k])
           IN  WithKey(p, WalkOrder(p), key) = WithKey(p, acquisition_lots, key)
      /\ \A m, n \in MatchIdx(p) :
           (/\ m < n
            /\ match_origin[p][m].sale = match_origin[p][n].sale
            /\ TieKey(p, OriginLot(p, m)) = TieKey(p, OriginLot(p, n)))
             => CallerPosition(OriginLot(p, m)) <= CallerPosition(OriginLot(p, n))

\* C24 witness: under HIFO, whose sort is descending, one disposal has
\* been filled from two different lots of equal cost basis per unit, the
\* caller's first lot first, although it is the later acquired.
C24_Witness ==
  /\ Len(matched_lots["HIFO"]) >= 2
  /\ match_origin["HIFO"][1].sale = match_origin["HIFO"][2].sale
  /\ OriginLot("HIFO", 1) # OriginLot("HIFO", 2)
  /\ OriginLot("HIFO", 1).price_per_btc = OriginLot("HIFO", 2).price_per_btc
  /\ OriginLot("HIFO", 1).date > OriginLot("HIFO", 2).date
  /\ OriginLot("HIFO", 1) = acquisition_lots[1]

\* C24, under LIFO: one disposal filled from two different lots of equal
\* timestamp, the caller's first lot first.
C24_WitnessLifo ==
  /\ Len(matched_lots["LIFO"]) >= 2
  /\ match_origin["LIFO"][1].sale = match_origin["LIFO"][2].sale
  /\ OriginLot("LIFO", 1) # OriginLot("LIFO", 2)
  /\ OriginLot("LIFO", 1).date = OriginLot("LIFO", 2).date
  /\ OriginLot("LIFO", 1) = acquisition_lots[1]

\* C26: for disposals supplied in ascending date order, FIFO, LIFO and
\* HIFO allocate the same total quantity to each disposal and report the
\* same total_proceeds.
C26_QuantityPolicyIndependent ==
  SalesAscending =>
    \A p, q \in Methods :
      (pc[p] = "returned" /\ pc[q] = "returned") =>
        /\ \A k \in 1..Len(sales) :
             AllocatedToSale(p, k) = AllocatedToSale(q, k)
        /\ results[p].total_proceeds = results[q].total_proceeds

\* C26 witness: the three runs have returned on two ascending disposals,
\* both filled, the second from two lots, with gain and cost basis of
\* FIFO and HIFO different.
C26_Witness ==
  /\ SalesAscending
  /\ \A p \in Methods : pc[p] = "returned"
  /\ Len(sales) = 2
  /\ sales[1].date < sales[2].date
  /\ AllocatedToSale("FIFO", 1) > 0
  /\ AllocatedToSale("FIFO", 2) > 0
  /\ Len(matched_lots["FIFO"]) = 3
  /\ Len(matched_lots["HIFO"]) = 3
  /\ results["FIFO"].total_realized_gain # results["HIFO"].total_realized_gain
  /\ results["FIFO"].total_cost_basis # results["HIFO"].total_cost_basis

\* C28: for every match made from a lot of positive quantity, gain_loss =
\* sale_price_per_btc * lot_amount_used - cost_basis_used, and in every
\* result total_realized_gain = total_proceeds - total_cost_basis.
C28_GainIsProceedsMinusBasis ==
  \A p \in Methods :
    /\ \A m \in MatchIdx(p) :
         OriginLot(p, m).btc_amount > 0 =>
           matched_lots[p][m].gain_loss =
             matched_lots[p][m].sale_price_per_btc
               * matched_lots[p][m].lot_amount_used
               - matched_lots[p][m].cost_basis_used
    /\ pc[p] = "returned" =>
         results[p].total_realized_gain =
           results[p].total_proceeds - results[p].total_cost_basis

\* C28 witness: a returned result of three matches, one of them a loss
\* made from part of a lot, with gain, proceeds and cost basis all
\* different from zero.
C28_Witness ==
  \E p \in Methods :
    /\ pc[p] = "returned"
    /\ Len(results[p].matched_lots) = 3
    /\ \E m \in MatchIdx(p) :
         /\ matched_lots[p][m].gain_loss < 0
         /\ matched_lots[p][m].lot_amount_used < OriginLot(p, m).btc_amount
    /\ results[p].total_realized_gain # 0
    /\ results[p].total_cost_basis # 0

\* The lots, or the sales, of positive quantity, in the order of the list.
PositiveOnly(records) ==
  LET IsPositive(r) == r.btc_amount > 0
  IN  SelectSeq(records, IsPositive)

\* C30: a lot of zero or negative quantity is never allocated from, a
\* disposal of zero or negative quantity yields no match, and the run
\* returns what the policy computes on the other lots and disposals.
C30_InvalidInputsAbsorbed ==
  \A p \in Methods :
    /\ \A m \in MatchIdx(p) :
         /\ OriginLot(p, m).btc_amount > 0
         /\ OriginSale(p, m).btc_amount > 0
    /\ pc[p] = "returned" =>
         results[p] =
           match_sales_to_lots(p, PositiveOnly(acquisition_lots),
                               PositiveOnly(sales))

\* C30 witness: a run has returned a match although the first lot has no
\* positive quantity and the first disposal has a negative one.
C30_Witness ==
  \E p \in Methods :
    /\ pc[p] = "returned"
    /\ Len(acquisition_lots) = 2
    /\ Len(sales) = 2
    /\ remaining_lots[p][1].lot.btc_amount <= 0
    /\ sales[1].btc_amount < 0
    /\ results[p].matched_lots # <<>>

\* C30, a lot of quantity zero walked first by a run that returns a match.
C30_WitnessZeroLot ==
  \E p \in Methods :
    /\ pc[p] = "returned"
    /\ Len(acquisition_lots) = 2
    /\ remaining_lots[p][1].lot.btc_amount = 0
    /\ results[p].matched_lots # <<>>

\* A row the parsers make a record of: its date parses, its quantity is a
\* positive number and the price table has a positive price for its day.
WellFormedRow(row) ==
  /\ row.Date.parses
  /\ row.Amount.notna
  /\ row.Amount.value > 0
  /\ BtcPrice(CalendarDay(row.Date.datetime)) > 0

\* The number of well-formed rows among the first k rows.
RecordsUpTo(rows, k) ==
  Cardinality({j \in 1..k : WellFormedRow(rows[j])})

\* The lots returned are the lots of the well-formed rows, in row order,
\* each with the row's positive quantity and valued at a positive price.
LotsOfWellFormedRows(lots, rows) ==
  /\ Len(lots) = RecordsUpTo(rows, Len(rows))
  /\ \A k \in 1..Len(rows) :
       WellFormedRow(rows[k]) =>
         LET lot == lots[RecordsUpTo(rows, k)]
             price == BtcPrice(CalendarDay(rows[k].Date.datetime))
         IN  /\ lot.date = rows[k].Date.datetime
             /\ lot.btc_amount = rows[k].Amount.value
             /\ lot.btc_amount > 0
             /\ price > 0
             /\ lot.cost_basis_usd - rows[k].Fee = price * lot.btc_amount

\* The same for the disposals returned.
SalesOfWellFormedRows(sale_list, rows) ==
  /\ Len(sale_list) = RecordsUpTo(rows, Len(rows))
  /\ \A k \in 1..Len(rows) :
       WellFormedRow(rows[k]) =>
         LET sale == sale_list[RecordsUpTo(rows, k)]
         IN  /\ sale.date = rows[k].Date.datetime
             /\ sale.btc_amount = rows[k].Amount.value
             /\ sale.btc_amount > 0
             /\ sale.sale_price_per_btc > 0
             /\ sale.sale_proceeds_usd
                  = sale.sale_price_per_btc * sale.btc_amount

\* C23: every lot parse_buy_transactions and parse_mining_transactions
\* return and every disposal parse_river_sells and parse_compass_payments
\* return has a quantity above 0 and was valued at a price above 0; a row
\* with a non-positive quantity, an unparsable date or a price lookup of 0
\* gives no record, and the rows after it are still parsed: the records are
\* those of the well-formed rows, one each, in row order. So are the lists
\* main hands to the engine.
C23_NormalizationShieldsEngine ==
  /\ main_pc # "parse_buys" =>
       LotsOfWellFormedRows(buy_lots, csv_rows["buys"])
  /\ main_pc \notin {"parse_buys", "parse_mining"} =>
       LotsOfWellFormedRows(mining_lots, csv_rows["mining"])
  /\ SalesOfWellFormedRows(parse_river_sells(csv_rows["river"]),
                           csv_rows["river"])
  /\ SalesOfWellFormedRows(parse_compass_payments(csv_rows["compass"]),
                           csv_rows["compass"])
  /\ main_pc \in {"match", "report", "done"} =>
       /\ Len(sales) = RecordsUpTo(csv_rows["river"], Len(csv_rows["river"]))
                       + RecordsUpTo(csv_rows["compass"],
                                     Len(csv_rows["compass"]))
       /\ \A k \in 1..Len(sales) :
            sales[k].btc_amount > 0 /\ sales[k].sale_price_per_btc > 0
       /\ \A k \in 1..Len(acquisition_lots) :
            /\ acquisition_lots[k].btc_amount > 0
            /\ acquisition_lots[k].source # "LEGACY" =>
                 acquisition_lots[k].price_per_btc > 0

\* C23 witness: a buy row whose date does not parse, then a well-formed
\* buy row: parse_buy_transactions has returned the lot of the second row.
C23_Witness ==
  /\ main_pc = "parse_mining"
  /\ Len(csv_rows["buys"]) = 2
  /\ ~csv_rows["buys"][1].Date.parses
  /\ WellFormedRow(csv_rows["buys"][2])
  /\ Len(buy_lots) = 1
  /\ buy_lots[1].date = csv_rows["buys"][2].Date.datetime

\* C23 witness: a mining row with a non-positive quantity, then a
\* well-formed one.
C23_WitnessQuantity ==
  /\ main_pc = "build"
  /\ Len(csv_rows["mining"]) = 2
  /\ csv_rows["mining"][1].Date.parses
  /\ csv_rows["mining"][1].Amount.notna
  /\ csv_rows["mining"][1].Amount.value <= 0
  /\ WellFormedRow(csv_rows["mining"][2])
  /\ Len(mining_lots) = 1

\* C23 witness: a River row on a day without price, then a well-formed
\* one, whose disposal the engine has matched nothing to for want of lots.
C23_WitnessPrice ==
  /\ main_pc = "match"
  /\ Len(csv_rows["river"]) = 2
  /\ DateAndAmountOk(csv_rows["river"][1])
  /\ BtcPrice(CalendarDay(csv_rows["river"][1].Date.datetime)) = 0
  /\ WellFormedRow(csv_rows["river"][2])
  /\ Len(sales) = 1
  /\ pc["FIFO"] = "returned"

\* C23 witness: all four files with rows, the Compass row without date:
\* the engine has matched the River disposal to a lot.
C23_WitnessPipeline ==
  /\ main_pc = "match"
  /\ \A f \in Files : Len(csv_rows[f]) = 1
  /\ ~csv_rows["compass"][1].Date.parses
  /\ Len(sales) = 1
  /\ pc["FIFO"] = "returned"
  /\ matched_lots["FIFO"] # <<>>

\* The records are in ascending date order.
AscendingDates(records) ==
  \A j, k \in 1..Len(records) : j < k => records[j].date <= records[k].date

\* C27: in main the engine always receives the disposals in ascending date
\* order and the lots in ascending date order: from the first matching call
\* on, sales is what parse_all_sales returned for the River and Compass
\* rows, acquisition_lots is what build_acquisition_lots returned for the
\* buy, mining and legacy lots, both are sorted by date, and each of the
\* three functions walks exactly these lists.
C27_PipelineListsAscending ==
  main_pc \in {"match", "report", "done"} =>
    /\ sales = parse_all_sales(csv_rows["river"], csv_rows["compass"])
    /\ acquisition_lots =
         build_acquisition_lots(buy_lots, mining_lots, current_balance_btc,
                                legacy_acquisition_date)
    /\ AscendingDates(sales)
    /\ AscendingDates(acquisition_lots)
    /\ \A p \in Methods :
         pc[p] # "call" =>
           /\ Len(remaining_lots[p]) = Len(acquisition_lots)
           /\ sale_idx[p] \in 0..Len(sales)

\* C27 witness: the River disposal is later than the Compass disposal and
\* the buy lot later than the mining lot, there is a legacy lot, and all
\* three functions have returned with matches: the lists they walked have
\* the Compass disposal first, and the legacy lot, then the mining lot, then
\* the buy lot.
C27_Witness ==
  /\ main_pc = "match"
  /\ \A p \in Methods : pc[p] = "returned" /\ matched_lots[p] # <<>>
  /\ Len(sales) = 2
  /\ sales[1].source = "COMPASS_PAYMENT"
  /\ sales[2].source = "RIVER_SELL"
  /\ sales[1].date < sales[2].date
  /\ Len(acquisition_lots) = 3
  /\ acquisition_lots[1].source = "LEGACY"
  /\ acquisition_lots[2].source = "MINING"
  /\ acquisition_lots[3].source = "BUY"
  /\ acquisition_lots[2].date < acquisition_lots[3].date

====
